---- MODULE Spec2Model ----
(***************************************************************************)
(* FBDI-Automation: the control-file field parser                          *)
(* (fbdi/control_file/services/control_file.py) and the mapping-driven     *)
(* transformation (fbdi/generator/services/transform_service.py, the HEAD  *)
(* side of the file's merge markers, the one that calls                    *)
(* db.execute_sql_query), with get_metadata                                *)
(* (fbdi/control_file/api/routes.py) and the S3 log handler                *)
(* (fbdi/utils/s3_logger.py).                                              *)
(*                                                                         *)
(* Text.  A Python str is a sequence of symbols.  A symbol is one          *)
(* character ("(", ")", "\n", " ", ",", "x", "X") or one of the words      *)
(* INTO, TABLE, CONSTANT, EXPRESSION, FILLER, END (and lower-case          *)
(* spellings).  No word can be read across a symbol boundary (no symbol    *)
(* ends with a proper prefix of a word that another symbol completes), so  *)
(* str.find of a word is a search for the symbol, and equality of strings  *)
(* is equality of symbol sequences.  Indices are Python's: 0-based, -1     *)
(* for "not found".                                                        *)
(***************************************************************************)
EXTENDS Integers, Sequences, FiniteSets, TLC

VARIABLES
    \* ---- control-file parser ----
    content,        \* the control-file text handed to the parser
    ppc,            \* "ready" before the parse, "done" after
    presult,        \* what __extract_fields_from_content returned or raised
    \* ---- process_mapping_and_generate_csvs ----
    pc,             \* "begin", "sheets" (between two sheets), "rules" (inside one),
                    \* "returned", "raised"
    raised,         \* the message of the exception the request ended with
    source_file,    \* the uploaded source file: its name, whether pandas can
                    \* read its content, and the data lines the content has
    source_df,      \* the source table
    output_df,      \* the output table of the sheet being processed
    row,            \* the rule being applied (the row of mapping_df)
    sheets_left,    \* at most so many keys of mapping_data are still to come
    rules_left,     \* at most so many rules of the mapping are still to come
    zip_file,       \* the entries written to the archive, in order
    sql_calls,      \* how many times db.execute_sql_query was called
    sheet_log,      \* what became of each sheet: written, skipped or failed
    mapping_columns,    \* which of the two required columns mapping_df has
                    \* for the sheet taken last (line 207)
    last,           \* per control column: the last rule that assigned it, the
                    \* scalar it resolved to, and whether the column was
                    \* assigned never (0), once (1) or more often (2)
    \* ---- generate_sequence ----
    seq_pattern,    \* the pattern handed to generate_sequence
    sequences,      \* per call: the clock reading it took and what it returned
    \* ---- get_metadata ----
    control_files,  \* the object's control files: per file the download's HTTP
                    \* status and the text downloaded
    additional_fields,  \* the object's additionalColumns in the database
    cf_index,       \* how many control files the loop of line 38 has done
    control_file_list,  \* _control_file_list: per file done its merged fields
                    \* (with the parsed fields and the supplied ones it came from)
    mpc,            \* "idle", "loop", "responded"
    response,       \* what get_metadata returned or raised
    \* ---- S3LoggerHandler ----
    log_buffer,     \* self.log_buffer: the formatted entries not yet uploaded
    s3_objects,     \* the bucket: per day's key whether the log object is
                    \* there, and the entries of its body
    last_key,       \* the key put_object wrote last (0: none so far)
    emitted,        \* how many entries emit has formatted (the k-th is k)
    utc_day         \* the day datetime.utcnow() read last

pvars == <<content, ppc, presult>>
tvars == <<pc, raised, source_file, source_df, output_df, row,
           sheets_left, rules_left, zip_file, sql_calls, sheet_log, last,
           mapping_columns>>
svars == <<seq_pattern, sequences>>
mvars == <<control_files, additional_fields, cf_index, control_file_list, mpc, response>>
lvars == <<log_buffer, s3_objects, last_key, emitted, utc_day>>
vars == <<pvars, tvars, svars, mvars, lvars>>

\* what an operation of one part leaves alone
outside_parser == <<tvars, svars, mvars, lvars>>
outside_transform == <<pvars, svars, mvars, lvars>>
outside_sequence == <<pvars, tvars, mvars, lvars>>
outside_metadata == <<pvars, tvars, svars, lvars>>
outside_logger == <<pvars, tvars, svars, mvars>>

\* ------------------------------------------------------------------ bounds
MaxBody == 4     \* structural symbols drawn between preamble and postamble
MaxLine == 3     \* lexical symbols drawn between preamble and postamble
MaxRows == 2     \* rows of the source table
MaxRules == 3    \* rules of a mapping of one sheet
MaxSheets == 2   \* sheets of a mapping of several sheets
MaxBatchRules == 2   \* rules of a mapping of several sheets, all sheets together
MaxPattern == 4  \* characters of a drawn sequence pattern
MaxCalls == 2    \* calls of generate_sequence with one pattern
MaxFiles == 2    \* control files of an object
MaxAdditional == 3   \* additional fields of an object

\* ------------------------------------------------------------ text helpers
Min(S) == CHOOSE x \in S : \A y \in S : x <= y

\* s[a:b] of Python for 0 <= a, b <= len(s)
Slice(s, a, b) == IF b <= a THEN << >> ELSE SubSeq(s, a + 1, b)

\* str.upper, symbol by symbol
UpperSym(c) ==
    CASE c = "x" -> "X"
      [] c = "s" -> "S" [] c = "e" -> "E" [] c = "q" -> "Q"
      [] c = "u" -> "U" [] c = "n" -> "N" [] c = "c" -> "C"
      [] c = "filler" -> "FILLER"
      [] c = "constant" -> "CONSTANT"
      [] c = "expression" -> "EXPRESSION"
      [] c = "end" -> "END"
      [] c = "into" -> "INTO"
      [] c = "table" -> "TABLE"
      [] OTHER -> c

Upper(s) == [i \in 1..Len(s) |-> UpperSym(s[i])]

\* str.find(pat, start): the lowest index >= start where pat occurs, or -1
Find(s, pat, start) ==
    LET hits == {i \in start..(Len(s) - Len(pat)) :
                    Slice(s, i, i + Len(pat)) = pat}
    IN IF hits = {} THEN -1 ELSE Min(hits)

IsSpace(c) == c \in {" ", "\n"}

\* str.strip()
RECURSIVE LStrip(_)
LStrip(s) == IF s # << >> /\ IsSpace(Head(s)) THEN LStrip(Tail(s)) ELSE s

RECURSIVE RStrip(_)
RStrip(s) ==
    IF s # << >> /\ IsSpace(s[Len(s)]) THEN RStrip(SubSeq(s, 1, Len(s) - 1)) ELSE s

Strip(s) == RStrip(LStrip(s))

\* str.split(sep) for a one-symbol separator: always at least one piece
RECURSIVE Split(_, _)
Split(s, sep) ==
    LET i == Find(s, <<sep>>, 0)
    IN IF i = -1 THEN <<s>>
       ELSE <<Slice(s, 0, i)>> \o Split(Slice(s, i + 1, Len(s)), sep)

\* the characters of the class [A-Z0-9_]: every character of a word symbol is one
IsFieldChar(c) ==
    c \in {"X", "1", "_", "INTO", "TABLE", "CONSTANT", "EXPRESSION", "FILLER", "END"}

\* the longest prefix of s made of [A-Z0-9_]
RECURSIVE FieldRun(_)
FieldRun(s) ==
    IF s # << >> /\ IsFieldChar(Head(s)) THEN <<Head(s)>> \o FieldRun(Tail(s)) ELSE << >>

\* (a variant: the class taken once, r'^,?([A-Z0-9_])')
MatchFieldOneChar(s) ==
    LET t == IF s # << >> /\ Head(s) = "," THEN Tail(s) ELSE s
    IN IF t # << >> /\ IsFieldChar(Head(t)) THEN <<Head(t)>> ELSE << >>

\* re.match(r'^,?([A-Z0-9_]+)', s): group 1, or << >> for no match (a match is
\* never empty).  With the comma consumed the class must follow; without it the
\* comma itself is no class character, so the one attempt decides.
MatchField(s) ==
    IF s # << >> /\ Head(s) = "," THEN FieldRun(Tail(s)) ELSE FieldRun(s)

\* ------------------------------------------------ _parse_control_file_content
ANCHOR == <<"INTO", " ", "TABLE">>
END_SENTINEL == <<"END">>

\* the scan of lines 75-84 from index i with the depth reached so far:
\* the index of the ')' that brings depth to 0, or -1 at the end of the text
RECURSIVE CloseParenIndexFrom(_, _, _)
CloseParenIndexFrom(text, i, depth) ==
    IF i >= Len(text) THEN -1
    ELSE IF text[i + 1] = "(" THEN CloseParenIndexFrom(text, i + 1, depth + 1)
    ELSE IF text[i + 1] = ")"
         THEN IF depth - 1 = 0 THEN i
              ELSE CloseParenIndexFrom(text, i + 1, depth - 1)
    ELSE CloseParenIndexFrom(text, i + 1, depth)

\* the scan without the depth counter: the first ')' after the '('
CloseParenIndexFirst(text, open_paren_index) ==
    Find(text, <<")">>, open_paren_index + 1)

\* the scan run to the end of the text: the last ')' after the '('
CloseParenIndexLast(text, open_paren_index) ==
    LET hits == {i \in (open_paren_index + 1)..(Len(text) - 1) : text[i + 1] = ")"}
    IN IF hits = {} THEN -1 ELSE CHOOSE i \in hits : \A j \in hits : j <= i

CloseParenIndex(text, open_paren_index) ==
    CloseParenIndexFrom(text, open_paren_index + 1, 1)

\* (a variant: the three words looked for as the whole trimmed line only)
SkipLineWholeLine(line) ==
    Strip(line) \in {<<"CONSTANT">>, <<"EXPRESSION">>, <<"FILLER">>, <<"END">>}

\* line 99: the line (already upper-cased) is a system-derived one
SkipLine(line) ==
    \/ Find(line, <<"CONSTANT">>, 0) # -1
    \/ Find(line, <<"EXPRESSION">>, 0) # -1
    \/ Find(line, <<"FILLER">>, 0) # -1
    \/ Strip(line) = <<"END">>

\* (a variant: the match appended whatever it holds, as r'^,?([A-Z0-9_]*)' gives)
LineFieldsUnchecked(raw) ==
    LET line == Upper(raw)
    IN IF SkipLine(line) THEN << >> ELSE <<MatchField(Strip(line))>>

\* lines 96-104 for one line: the names it adds to field_names (none or one)
LineFields(raw) ==
    LET line == Upper(raw)
    IN IF SkipLine(line) THEN << >>
       ELSE LET m == MatchField(Strip(line))
            IN IF m = << >> THEN << >> ELSE <<m>>

RECURSIVE CollectFields(_)
CollectFields(lines) ==
    IF lines = << >> THEN << >>
    ELSE LineFields(Head(lines)) \o CollectFields(Tail(lines))

\* lines 90-93
FieldSection(text, open_paren_index, close_paren_index) ==
    Slice(text, open_paren_index + 1, close_paren_index)

\* lines 105-106 without the sentinel, and with it whatever the list holds
WithSentinelNever(field_names) == field_names
WithSentinelAlways(field_names) == field_names \o <<END_SENTINEL>>

\* lines 105-106
WithSentinel(field_names) ==
    IF Len(field_names) > 0 THEN field_names \o <<END_SENTINEL>> ELSE field_names

Raised(status, detail) ==
    [kind |-> "HTTPException", status_code |-> status, detail |-> detail, fields |-> << >>]
Returned(fields) ==
    [kind |-> "return", status_code |-> 0, detail |-> "", fields |-> fields]

\* line 65
IntoTableIndex(text) == Find(text, ANCHOR, 0)

\* line 70, with the search started anywhere
OpenParenIndexFromStart(text, into_table_index) == Find(text, <<"(">>, 0)

\* line 70
OpenParenIndex(text, into_table_index) == Find(text, <<"(">>, into_table_index)

ParseControlFileContent(text) ==
    LET into_table_index == IntoTableIndex(text)
    IN IF into_table_index = -1
       THEN Raised(422, "Could not find 'INTO TABLE' in the control file")
       ELSE
    LET open_paren_index == OpenParenIndex(text, into_table_index)
    IN IF open_paren_index = -1
       THEN Raised(422, "Could not find opening parenthesis after INTO TABLE")
       ELSE
    LET close_paren_index == CloseParenIndex(text, open_paren_index)
    IN IF close_paren_index = -1
       THEN Raised(422, "Could not find matching closing parenthesis")
       ELSE
    LET lines == Split(FieldSection(text, open_paren_index, close_paren_index), "\n")
    IN Returned(WithSentinel(CollectFields(lines)))

\* __extract_fields_from_content: an HTTPException passes, anything else
\* raised becomes a 500
ExtractFieldsFromContent(text) ==
    LET r == ParseControlFileContent(text)
    IN IF r.kind \in {"return", "HTTPException"} THEN r
       ELSE Raised(500, "Error processing control file")

\* ------------------------------------------------------- control-file inputs
\* A text is a preamble, a body and a postamble.  The body is drawn either
\* from the structural symbols (nesting, line breaks) or from the lexical ones
\* (what a field line may hold).
Structural == {"(", ")", "\n", "x", ","}
Lexical == {"x", ",", " ", "\n", "FILLER", "filler", "CONSTANT", "EXPRESSION", "END", "end"}

Preambles ==
    { << >>,
      <<"(", ")", "INTO", " ", "TABLE">>,
      <<"INTO", " ", "TABLE", " ", "x", "(">>,
      <<"into", " ", "table", "(">>,
      <<")", "(", "INTO", " ", "TABLE", "(", "(">> }

Postambles == { << >>, <<")">> }

SeqsUpTo(S, n) == UNION {[1..k -> S] : k \in 0..n}

Bodies == SeqsUpTo(Structural, MaxBody) \cup SeqsUpTo(Lexical, MaxLine)

ControlFileTexts == {p \o b \o q : p \in Preambles, b \in Bodies, q \in Postambles}

(***************************************************************************)
(* The transformation.  A cell, a constant, a pattern and a timestamp are  *)
(* strings: sequences of one-character symbols (the integer 1 of the       *)
(* source table is its printed form <<"1">>).  None and NaN are the two    *)
(* null cells; no string equals them, their one symbol being no character. *)
(* A column name and an index label are TLA+ strings.                      *)
(***************************************************************************)
None == <<"None">>
NaN == <<"NaN">>
IsNull(cell) == cell \in {None, NaN}

Digit(d) ==
    CASE d = 0 -> "0" [] d = 1 -> "1" [] d = 2 -> "2" [] d = 3 -> "3" [] d = 4 -> "4"
      [] d = 5 -> "5" [] d = 6 -> "6" [] d = 7 -> "7" [] d = 8 -> "8" [] d = 9 -> "9"

\* ---------------------------------------------------------------- pandas
\* A DataFrame: its index labels, its column names in order, and one sequence
\* of cells per column, as long as the index.
EmptyFrame == [index |-> << >>, columns |-> << >>, data |-> << >>]

RangeIndex(n) == [i \in 1..n |-> Digit(i - 1)]

Position(seq, x) == Min({i \in 1..Len(seq) : seq[i] = x})
Contains(seq, x) == \E i \in 1..Len(seq) : seq[i] = x

\* df[name] as a Series: its index and its values
GetColumn(df, name) ==
    [index |-> df.index, values |-> df.data[Position(df.columns, name)]]

\* the column under `name` becomes `cells`: in place when the frame has the
\* name, appended as the last column when not
PutColumn(df, name, cells) ==
    IF Contains(df.columns, name)
    THEN [df EXCEPT !.data[Position(df.columns, name)] = cells]
    ELSE [df EXCEPT !.columns = Append(@, name), !.data = Append(@, cells)]

\* Series.reindex / DataFrame.reindex: a label the old index lacks reads NaN
ReindexCells(old_index, cells, new_index) ==
    [i \in 1..Len(new_index) |->
        IF Contains(old_index, new_index[i])
        THEN cells[Position(old_index, new_index[i])] ELSE NaN]

ReindexFrame(df, new_index) ==
    [index |-> new_index,
     columns |-> df.columns,
     data |-> [c \in 1..Len(df.columns) |-> ReindexCells(df.index, df.data[c], new_index)]]

\* DataFrame._ensure_valid_index: a frame whose index is empty takes the index
\* of the first non-empty list-like assigned to it, its columns filled with NaN
EnsureValidIndex(df, series) ==
    IF Len(df.index) = 0 /\ Len(series.values) > 0
    THEN ReindexFrame(df, series.index) ELSE df

\* df[name] = series: aligned on the frame's index
SetItemSeries(df, name, series) ==
    LET d == EnsureValidIndex(df, series)
    IN PutColumn(d, name, ReindexCells(series.index, series.values, d.index))

\* (a variant: the scalar in the first row only)
SetItemScalarFirstRow(df, name, value) ==
    PutColumn(df, name, [i \in 1..Len(df.index) |-> IF i = 1 THEN value ELSE NaN])

\* df[name] = scalar: one cell per label of the frame's index
SetItemScalar(df, name, value) ==
    PutColumn(df, name, [i \in 1..Len(df.index) |-> value])

\* ---------------------------------------------------------- generate_sequence
\* str.replace(old, new): the occurrences of old, left to right, not overlapping
RECURSIVE Replace(_, _, _)
Replace(s, old, new) ==
    IF Len(s) < Len(old) THEN s
    ELSE IF SubSeq(s, 1, Len(old)) = old
         THEN new \o Replace(SubSeq(s, Len(old) + 1, Len(s)), old, new)
         ELSE <<Head(s)>> \o Replace(Tail(s), old, new)

\* (a variant: no leading zero)
Pad2Unpadded(n) == IF n < 10 THEN <<Digit(n)>> ELSE <<Digit((n \div 10) % 10), Digit(n % 10)>>

\* strftime('%m') and the like: two digits
Pad2(n) == <<Digit((n \div 10) % 10), Digit(n % 10)>>
Pad4(n) == <<Digit((n \div 1000) % 10), Digit((n \div 100) % 10)>> \o Pad2(n % 100)

\* (a variant: the minute token ahead of the month token)
FormatMapMinuteFirst(now) ==
    << <<<<"Y", "Y", "Y", "Y">>, Pad4(now.year)>>,
       <<<<"M", "I">>, Pad2(now.minute)>>,
       <<<<"M", "M">>, Pad2(now.month)>>,
       <<<<"D", "D">>, Pad2(now.day)>>,
       <<<<"H", "H">>, Pad2(now.hour)>>,
       <<<<"S", "S">>, Pad2(now.second)>> >>

\* lines 358-365, in the dict's order
FormatMap(now) ==
    << <<<<"Y", "Y", "Y", "Y">>, Pad4(now.year)>>,
       <<<<"M", "M">>, Pad2(now.month)>>,
       <<<<"D", "D">>, Pad2(now.day)>>,
       <<<<"H", "H">>, Pad2(now.hour)>>,
       <<<<"M", "I">>, Pad2(now.minute)>>,
       <<<<"S", "S">>, Pad2(now.second)>> >>

RECURSIVE ReplaceTokens(_, _)
ReplaceTokens(result, map) ==
    IF map = << >> THEN result
    ELSE ReplaceTokens(Replace(result, Head(map)[1], Head(map)[2]), Tail(map))

GenerateSequence(format_pattern, now) == ReplaceTokens(format_pattern, FormatMap(now))

\* datetime.now().strftime('%Y%m%d%H%M%S')
LegacyTimestamp(now) ==
    Pad4(now.year) \o Pad2(now.month) \o Pad2(now.day)
        \o Pad2(now.hour) \o Pad2(now.minute) \o Pad2(now.second)

DEFAULT_PATTERN == <<"Y", "Y", "Y", "Y", "M", "M", "D", "D", "H", "H", "M", "I", "S", "S">>

\* ------------------------------------------------- the mapping and its rules
NO_SOURCE == "<NA>"     \* 'Source Column' missing from the rule, or null

SourceColumns == {NO_SOURCE, "id", "zz"}
ControlColumns == {"ID", "STAMP"}

SEQUENCE == <<"S", "E", "Q", "U", "E", "N", "C", "E">>

NoDefault == [shape |-> "absent", type |-> "", value |-> << >>]
DefaultValues ==
    { NoDefault,
      [shape |-> "dict", type |-> "sql", value |-> <<"q">>],
      [shape |-> "dict", type |-> "sequence", value |-> <<"Y", "Y", "Y", "Y", "M", "M", "D", "D">>],
      [shape |-> "dict", type |-> "constant", value |-> <<"X">>],
      [shape |-> "dict", type |-> "foo", value |-> <<"v">>],
      [shape |-> "scalar", type |-> "", value |-> SEQUENCE],
      [shape |-> "scalar", type |-> "", value |-> <<"S", "e", "q", "u", "e", "n", "c", "e">>],
      [shape |-> "scalar", type |-> "", value |-> <<"5">>] }

\* Every default under a missing source column; under a source column that
\* the table has, or one it lacks, the defaults that tell the branches apart.
Rules ==
    [source : {NO_SOURCE}, control : ControlColumns, default : DefaultValues]
    \cup [source : {"id"}, control : ControlColumns,
          default : {d \in DefaultValues :
                        d.shape = "absent" \/ d.type \in {"constant", "sql"}}]
    \cup [source : {"zz"}, control : ControlColumns,
          default : {d \in DefaultValues : d.shape = "absent" \/ d.type = "constant"}]

NoRule == [source |-> NO_SOURCE, control |-> "", default |-> NoDefault]
NoLast == [c \in ControlColumns |-> [times |-> 0, rule |-> NoRule, value |-> None]]

SheetNames == { <<"G", "1">>, <<"G", " ", "2">>, <<"G", "_", "2">> }

\* the clock readings datetime.now() may give
Clocks ==
    { [year |-> 2024, month |-> 3, day |-> 5, hour |-> 10, minute |-> 20, second |-> 30] }

\* pd.read_csv(source_stream, sep='|') of a file with columns id and name and n rows
NameOf(i) == CASE i = 1 -> "a" [] i = 2 -> "b" [] i = 3 -> "c" [] OTHER -> "d"
SourceTable(n) ==
    [index |-> RangeIndex(n),
     columns |-> <<"id", "name">>,
     data |-> << [i \in 1..n |-> <<Digit(i)>>], [i \in 1..n |-> <<NameOf(i)>>] >>]

\* db.execute_sql_query, by what the database answers: the connection cannot
\* be made (line 228, outside the try: the exception leaves the function),
\* the query fails or times out (caught: an empty frame), no row, one row
SqlAnswers == {"connect_error", "query_error", "no_rows", "rows"}
SqlRaises(answer) == answer = "connect_error"
ExecuteSqlQuery(answer) ==
    IF answer = "rows"
    THEN [index |-> RangeIndex(1), columns |-> <<"C">>, data |-> << << <<"7">> >> >>]
    ELSE EmptyFrame

\* sql_result.iloc[0, 0] if not sql_result.empty else None
SqlScalar(sql_result) ==
    IF Len(sql_result.index) = 0 \/ Len(sql_result.columns) = 0 THEN None
    ELSE sql_result.data[1][1]

\* default_value.get('type', '').lower()
LowerType(t) == CASE t = "SQL" -> "sql" [] t = "Sequence" -> "sequence"
                  [] t = "CONSTANT" -> "constant" [] OTHER -> t

\* line 223
UsesDefault(rule) ==
    rule.source = NO_SOURCE \/ ~Contains(source_df.columns, rule.source)

\* line 274
CsvFilename(name) == Replace(name, <<" ">>, <<"_">>) \o <<".", "c", "s", "v">>

\* ------------------------------------------- process_mapping_and_generate_csvs
ParserIdle ==
    /\ content = << >>
    /\ ppc = "idle"
    /\ presult = Returned(<< >>)

\* source_filename.lower().endswith('.csv') or ...endswith('.txt'), line 182
LowerChar(c) ==
    CASE c = "C" -> "c" [] c = "S" -> "s" [] c = "V" -> "v"
      [] c = "T" -> "t" [] c = "X" -> "x" [] OTHER -> c
Lower(s) == [i \in 1..Len(s) |-> LowerChar(s[i])]
EndsWith(s, suffix) ==
    Len(s) >= Len(suffix) /\ SubSeq(s, Len(s) - Len(suffix) + 1, Len(s)) = suffix
\* (a variant: the extension without its dot)
HasValidExtensionNoDot(source_filename) ==
    \/ EndsWith(Lower(source_filename), <<"c", "s", "v">>)
    \/ EndsWith(Lower(source_filename), <<"t", "x", "t">>)

HasValidExtension(source_filename) ==
    \/ EndsWith(Lower(source_filename), <<".", "c", "s", "v">>)
    \/ EndsWith(Lower(source_filename), <<".", "t", "x", "t">>)

Filenames ==
    { <<"s", ".", "c", "s", "v">>, <<"S", ".", "T", "X", "T">>,
      <<"s", ".", "x", "l", "s">>, <<"c", "s", "v">> }
\* every number of rows under one name, every name over an empty content
SourceFiles ==
    [name : {<<"s", ".", "c", "s", "v">>}, readable : {TRUE}, lines : 0..MaxRows]
    \cup [name : Filenames, readable : BOOLEAN, lines : {0}]
NoFile == [name |-> << >>, readable |-> FALSE, lines |-> 0]

TransformIdle ==
    /\ pc = "begin"
    /\ raised = ""
    /\ source_df = EmptyFrame
    /\ output_df = EmptyFrame
    /\ row = NoRule
    /\ zip_file = << >>
    /\ sql_calls = 0
    /\ sheet_log = << >>
    /\ last = NoLast
    /\ mapping_columns = {}

NoResponse == [status_code |-> 0, detail |-> << >>, files |-> << >>, count |-> 0]
MetadataIdle ==
    /\ control_files = << >>
    /\ additional_fields = << >>
    /\ cf_index = 0
    /\ control_file_list = << >>
    /\ mpc = "idle"
    /\ response = NoResponse

SequenceIdle ==
    /\ seq_pattern = << >>
    /\ sequences = << >>

\* ---------------------------------------------------------- S3LoggerHandler
\* the handler's buffer_size (10 by default), the entries emitted and the
\* days the clock passes through, scaled down
buffer_size == 2
MaxEmits == 4
MaxDays == 2

Days == 1..MaxDays
NoObject == [exists |-> FALSE, body |-> << >>]

\* line 22, and an empty bucket
LoggerIdle ==
    /\ log_buffer = << >>
    /\ s3_objects = [d \in Days |-> NoObject]
    /\ last_key = 0
    /\ emitted = 0
    /\ utc_day = 1

\* a request whose mapping has one sheet
Init ==
    /\ ParserIdle /\ TransformIdle /\ SequenceIdle /\ MetadataIdle /\ LoggerIdle
    /\ source_file \in SourceFiles
    /\ sheets_left = 1
    /\ rules_left = MaxRules

\* a request whose mapping has several sheets, its source a file of one row
BatchInit ==
    /\ ParserIdle /\ TransformIdle /\ SequenceIdle /\ MetadataIdle /\ LoggerIdle
    /\ source_file = [name |-> <<"s", ".", "c", "s", "v">>, readable |-> TRUE, lines |-> 1]
    /\ sheets_left = MaxSheets
    /\ rules_left = MaxBatchRules

\* lines 179-197: the source file is read and the mapping parsed
ReadInputs ==
    /\ pc = "begin"
    /\ UNCHANGED <<outside_transform, source_file, mapping_columns>>
    /\ HasValidExtension(source_file.name)
    /\ source_file.readable
    /\ source_df' = SourceTable(source_file.lines)
    /\ pc' = "sheets"
    /\ UNCHANGED <<raised, output_df, row, sheets_left, rules_left,
                   zip_file, sql_calls, sheet_log, last>>

\* lines 182-189 and 287-292, in the code's order: a file name that is
\* neither .csv nor .txt (line 185), a source pandas cannot read (line 183),
\* a mapping that is no JSON (line 189, whatever the source file)
InputFailures ==
    IF ~HasValidExtension(source_file.name)
    THEN {"Failed to process files: Invalid source file format, valid formats are csv/txt"}
    ELSE IF ~source_file.readable
         THEN {"Failed to process files: Error tokenizing data"}
         ELSE {"Invalid JSON mapping format"}

RejectInputs ==
    /\ pc = "begin"
    /\ UNCHANGED <<outside_transform, source_file, mapping_columns>>
    /\ \E why \in InputFailures : raised' = why
    /\ pc' = "raised"
    /\ UNCHANGED <<source_df, output_df, row, sheets_left, rules_left,
                   zip_file, sql_calls, sheet_log, last>>

\* A sheet's name is used when the sheet is left (the file name of line 274,
\* the log lines 211, 277 and 280): the key is drawn there, among the keys
\* not met yet, so sheet_log lists the keys of mapping_data in their order.
\* line 210: the columns mapping_df must have
REQUIRED_COLUMNS == {"Source Column", "Control Column"}

Logged(name, status) == Append(sheet_log, [name |-> name, status |-> status])
SheetsDone == {sheet_log[i].name : i \in 1..Len(sheet_log)}
NewSheetNames == SheetNames \ SheetsDone

\* lines 203-212: the next key of mapping_data, whose rules lack one of the
\* two required columns altogether
SkipSheet ==
    /\ pc = "sheets"
    /\ UNCHANGED <<outside_transform, source_file>>
    /\ sheets_left > 0
    /\ sheets_left' = sheets_left - 1
    /\ mapping_columns' \in (SUBSET REQUIRED_COLUMNS) \ {REQUIRED_COLUMNS}
    /\ \E name \in NewSheetNames : sheet_log' = Logged(name, "skipped")
    /\ UNCHANGED <<pc, raised, source_df, output_df, row, rules_left, zip_file,
                   sql_calls, last>>

\* lines 203-215: the next key of mapping_data, with both required columns
BeginSheet ==
    /\ pc = "sheets"
    /\ UNCHANGED <<outside_transform, source_file>>
    /\ sheets_left > 0
    /\ rules_left > 0
    /\ mapping_columns' = REQUIRED_COLUMNS
    /\ sheets_left' = sheets_left - 1
    /\ output_df' = EmptyFrame
    /\ pc' = "rules"
    /\ UNCHANGED <<raised, source_df, row, rules_left, zip_file, sql_calls, sheet_log, last>>

\* lines 218-221: the next row of mapping_df
TakeRule(rule) ==
    /\ pc = "rules"
    /\ rules_left > 0
    /\ rules_left' = rules_left - 1
    /\ UNCHANGED <<outside_transform, source_file, mapping_columns>>

Assigned(rule, value) ==
    [last EXCEPT ![rule.control] =
        [times |-> IF @.times = 0 THEN 1 ELSE 2, rule |-> rule, value |-> value]]

\* a default resolved to a scalar: lines 235, 248, 251, 259, 262, 264
AssignScalar(rule, value) ==
    /\ output_df' = SetItemScalar(output_df, rule.control, value)
    /\ last' = Assigned(rule, value)
    /\ row' = rule
    /\ UNCHANGED <<pc, raised, source_df, sheets_left, zip_file, sheet_log>>

\* (a variant: the query of an sql default run before the source column is
\* looked at)
MapColumnQueries ==
    \E rule \in Rules :
        /\ TakeRule(rule)
        /\ ~UsesDefault(rule)
        /\ output_df' = SetItemSeries(output_df, rule.control, GetColumn(source_df, rule.source))
        /\ last' = Assigned(rule, None)
        /\ row' = rule
        /\ sql_calls' = IF rule.default.shape = "dict" /\ LowerType(rule.default.type) = "sql"
                        THEN sql_calls + 1 ELSE sql_calls
        /\ UNCHANGED <<pc, raised, source_df, sheets_left, zip_file, sheet_log>>

\* line 267
MapColumn ==
    \E rule \in Rules :
        /\ TakeRule(rule)
        /\ ~UsesDefault(rule)
        /\ output_df' = SetItemSeries(output_df, rule.control, GetColumn(source_df, rule.source))
        /\ last' = Assigned(rule, None)
        /\ row' = rule
            /\ UNCHANGED <<pc, raised, source_df, sheets_left, zip_file,
                       sql_calls, sheet_log>>

\* line 264
DefaultAbsent ==
    \E rule \in Rules :
        /\ TakeRule(rule)
        /\ UsesDefault(rule)
        /\ rule.default.shape = "absent"
        /\ AssignScalar(rule, None)
        /\ UNCHANGED sql_calls

\* lines 231-235, the query function returning
DefaultSql ==
    \E rule \in Rules, answer \in SqlAnswers :
        /\ TakeRule(rule)
        /\ UsesDefault(rule)
        /\ rule.default.shape = "dict"
        /\ LowerType(rule.default.type) = "sql"
        /\ ~SqlRaises(answer)
        /\ sql_calls' = sql_calls + 1
        /\ AssignScalar(rule, SqlScalar(ExecuteSqlQuery(answer)))

\* (a variant: the failure of a sheet ends the request)
SheetAborts ==
    /\ \E name \in NewSheetNames : sheet_log' = Logged(name, "failed")
    /\ pc' = "raised"
    /\ output_df' = EmptyFrame
    /\ row' = NoRule
    /\ last' = NoLast
    /\ UNCHANGED <<raised, source_df, sheets_left, zip_file>>

\* lines 231-235 and 279-281, the query function raising: the sheet is left
\* (the sheet's working variables go out of use: they are cleared)
SheetFails ==
    /\ \E name \in NewSheetNames : sheet_log' = Logged(name, "failed")
    /\ pc' = "sheets"
    /\ output_df' = EmptyFrame
    /\ row' = NoRule
    /\ last' = NoLast
    /\ UNCHANGED <<raised, source_df, sheets_left, zip_file>>

DefaultSqlRaises ==
    \E rule \in Rules, answer \in SqlAnswers :
        /\ TakeRule(rule)
        /\ UsesDefault(rule)
        /\ rule.default.shape = "dict"
        /\ LowerType(rule.default.type) = "sql"
        /\ SqlRaises(answer)
        /\ sql_calls' = sql_calls + 1
        /\ SheetFails

\* lines 236-248
DefaultSequence ==
    \E rule \in Rules, now \in Clocks :
        /\ TakeRule(rule)
        /\ UsesDefault(rule)
        /\ rule.default.shape = "dict"
        /\ LowerType(rule.default.type) = "sequence"
        /\ LET format_pattern ==
                IF rule.default.value # << >> THEN rule.default.value ELSE DEFAULT_PATTERN
           IN AssignScalar(rule, GenerateSequence(format_pattern, now))
        /\ UNCHANGED sql_calls

\* lines 249-251
DefaultConstant ==
    \E rule \in Rules :
        /\ TakeRule(rule)
        /\ UsesDefault(rule)
        /\ rule.default.shape = "dict"
        /\ LowerType(rule.default.type) = "constant"
        /\ AssignScalar(rule, rule.default.value)
        /\ UNCHANGED sql_calls

\* str(x) of a str, character by character
Chars(t) == CASE t = "foo" -> <<"f", "o", "o">> [] t = "sql" -> <<"s", "q", "l">>
              [] t = "sequence" -> <<"s", "e", "q", "u", "e", "n", "c", "e">>
              [] t = "constant" -> <<"c", "o", "n", "s", "t", "a", "n", "t">>
              [] OTHER -> << >>

\* Series(default_value) of a dict {'type': t, 'value': v}: its keys are the
\* index, its values the cells
DictSeries(default) ==
    [index |-> <<"type", "value">>, values |-> <<Chars(default.type), default.value>>]

\* lines 252-255: a dict of another type is assigned itself; pandas takes a
\* dict for a Series and aligns it on the frame's index
DefaultUnknown ==
    \E rule \in Rules :
        /\ TakeRule(rule)
        /\ UsesDefault(rule)
        /\ rule.default.shape = "dict"
        /\ LowerType(rule.default.type) \notin {"sql", "sequence", "constant"}
        /\ output_df' = SetItemSeries(output_df, rule.control, DictSeries(rule.default))
        /\ last' = Assigned(rule, None)
        /\ row' = rule
        /\ UNCHANGED <<pc, raised, source_df, sheets_left, zip_file, sql_calls, sheet_log>>

\* lines 256-259
DefaultLegacy ==
    \E rule \in Rules, now \in Clocks :
        /\ TakeRule(rule)
        /\ UsesDefault(rule)
        /\ rule.default.shape = "scalar"
        /\ Upper(rule.default.value) = SEQUENCE
        /\ AssignScalar(rule, LegacyTimestamp(now))
        /\ UNCHANGED sql_calls

\* lines 260-262
DefaultScalar ==
    \E rule \in Rules :
        /\ TakeRule(rule)
        /\ UsesDefault(rule)
        /\ rule.default.shape = "scalar"
        /\ Upper(rule.default.value) # SEQUENCE
        /\ AssignScalar(rule, rule.default.value)
        /\ UNCHANGED sql_calls

\* output_df.to_csv(output_buffer, index=False) as the archive keeps it: the
\* header (the column names in order) and the number of data lines
ToCsv(df) == [header |-> df.columns, lines |-> Len(df.index)]

\* (a variant: an archive that keeps one entry per name, a later sheet of the
\* same file name taking the place of the earlier one)
EndSheetReplaces ==
    /\ pc = "rules"
    /\ UNCHANGED <<outside_transform, source_file, mapping_columns>>
    /\ row # NoRule
    /\ \E name \in NewSheetNames :
        /\ zip_file' =
            LET entry == [name |-> CsvFilename(name), csv |-> ToCsv(output_df)]
            IN IF \E i \in 1..Len(zip_file) : zip_file[i].name = entry.name
               THEN [i \in 1..Len(zip_file) |->
                        IF zip_file[i].name = entry.name THEN entry ELSE zip_file[i]]
               ELSE Append(zip_file, entry)
        /\ sheet_log' = Logged(name, "written")
    /\ pc' = "sheets"
    /\ output_df' = EmptyFrame
    /\ row' = NoRule
    /\ last' = NoLast
    /\ UNCHANGED <<raised, source_df, sheets_left, rules_left, sql_calls>>

\* lines 269-277: the sheet's rows are used up, its table is written (and
\* the sheet's working variables go out of use: they are cleared)
EndSheet ==
    /\ pc = "rules"
    /\ UNCHANGED <<outside_transform, source_file, mapping_columns>>
    /\ row # NoRule
    /\ \E name \in NewSheetNames :
        /\ zip_file' = Append(zip_file, [name |-> CsvFilename(name), csv |-> ToCsv(output_df)])
        /\ sheet_log' = Logged(name, "written")
    /\ pc' = "sheets"
    /\ output_df' = EmptyFrame
    /\ row' = NoRule
    /\ last' = NoLast
    /\ UNCHANGED <<raised, source_df, sheets_left, rules_left, sql_calls>>

\* lines 283-285: the keys of mapping_data are used up
Return ==
    /\ pc = "sheets"
    /\ UNCHANGED <<outside_transform, source_file, mapping_columns>>
    /\ pc' = "returned"
    /\ UNCHANGED <<raised, source_df, output_df, row,
                   sheets_left, rules_left, zip_file, sql_calls, sheet_log, last>>

\* line 285: what the caller gets is the archive and nothing else
ReturnValue == zip_file

\* routes.py lines 128-145, transform_data_with_mapping: the archive as the
\* response, or HTTP 500 whose detail carries the exception's message
TransformResponse ==
    IF pc = "raised"
    THEN [status_code |-> 500, content |-> << >>, detail |-> raised]
    ELSE [status_code |-> 200, content |-> ReturnValue, detail |-> ""]

Next ==
    \/ ReadInputs \/ RejectInputs \/ SkipSheet \/ BeginSheet
    \/ MapColumn \/ DefaultAbsent \/ DefaultSql \/ DefaultSqlRaises
    \/ DefaultSequence \/ DefaultConstant \/ DefaultUnknown
    \/ DefaultLegacy \/ DefaultScalar
    \/ EndSheet \/ Return

Spec == Init /\ [][Next]_vars
SpecBatch == BatchInit /\ [][Next]_vars

\* --------------------------------------------------- get_control_file_data
ParseInit ==
    /\ content \in ControlFileTexts
    /\ ppc = "ready"
    /\ presult = Returned(<< >>)
    /\ TransformIdle /\ SequenceIdle /\ MetadataIdle /\ LoggerIdle
    /\ source_file = NoFile
    /\ sheets_left = 0
    /\ rules_left = 0

\* get_control_file_data once the text is downloaded
ExtractFields ==
    /\ ppc = "ready"
    /\ presult' = ExtractFieldsFromContent(content)
    /\ ppc' = "done"
    /\ UNCHANGED <<content, outside_parser>>

ParseNext == ExtractFields

SpecParse == ParseInit /\ [][ParseNext]_vars

\* ------------------------------------------------------- generate_sequence
\* the characters the six tokens are spelt with, and one that is in no token
TokenChars == {"Y", "M", "D", "H", "I", "S", "-"}
YYYYMMDD == <<"Y", "Y", "Y", "Y", "M", "M", "D", "D">>
Patterns == SeqsUpTo(TokenChars, MaxPattern) \cup {YYYYMMDD, DEFAULT_PATTERN}

ClockReadings ==
    Clocks \cup
    { [year |-> 1999, month |-> 12, day |-> 31, hour |-> 23, minute |-> 59, second |-> 7] }

SequenceInit ==
    /\ seq_pattern \in Patterns
    /\ sequences = << >>
    /\ ParserIdle /\ TransformIdle /\ MetadataIdle /\ LoggerIdle
    /\ source_file = NoFile
    /\ sheets_left = 0
    /\ rules_left = 0

\* one call of generate_sequence: line 355 reads the clock
GenerateSequenceCall ==
    /\ Len(sequences) < MaxCalls
    /\ \E now \in ClockReadings :
        sequences' = Append(sequences,
                            [now |-> now, result |-> GenerateSequence(seq_pattern, now)])
    /\ UNCHANGED <<seq_pattern, outside_sequence>>

SequenceNext == GenerateSequenceCall

SpecSequence == SequenceInit /\ [][SequenceNext]_vars

\* ------------------------------------------------------------ get_metadata
\* the control files an object may have: field lines with a repeated name,
\* a section of skipped lines only, one text per grammar error, and a file
\* the server does not have
MetadataTexts ==
    { <<"INTO", " ", "TABLE", " ", "x", "(", "x", "\n", ",", "x", "x", ")">>,
      <<"INTO", " ", "TABLE", "(", "x", "\n", "x", ")">>,
      <<"INTO", " ", "TABLE", "(", "FILLER", ")">>,
      <<"x", "(", "x", ")">>,
      <<"INTO", " ", "TABLE", " ", "x">>,
      <<"INTO", " ", "TABLE", "(", "x">> }
ControlFiles ==
    [status : {200}, text : MetadataTexts] \cup [status : {404}, text : {<< >>}]
AdditionalNames == { <<"X">>, <<"A">>, <<"END">> }

\* str(status_code)
StatusText(status_code) ==
    CASE status_code = 400 -> "400" [] status_code = 404 -> "404"
      [] status_code = 422 -> "422" [] status_code = 500 -> "500" [] OTHER -> "200"

\* __get_control_file_content then __extract_fields_from_content, lines 120-121
GetControlFileData(file) ==
    IF file.status # 200
    THEN Raised(file.status, "Error downloading the file")
    ELSE ExtractFieldsFromContent(file.text)

\* (a variant: every additional field appended)
MergeAll(fields, additional) == fields \o additional

\* lines 45-47
RECURSIVE MergeFields(_, _)
MergeFields(fields, additional) ==
    IF additional = << >> THEN fields
    ELSE MergeFields(IF Contains(fields, Head(additional)) THEN fields
                     ELSE fields \o <<Head(additional)>>,
                     Tail(additional))

\* (a variant: the failure answered with an empty success)
RejectedAsEmpty(status_code, detail) ==
    [status_code |-> 200, detail |-> << >>, files |-> << >>, count |-> 0]

\* line 61: HTTP 400 whose detail is f"Error {e}"; an HTTPException prints
\* as its status code, a colon and its detail
Rejected(status_code, detail) ==
    [status_code |-> 400,
     detail |-> <<"Error ", StatusText(status_code), ": ", detail>>,
     files |-> << >>,
     count |-> 0]

MetadataInit ==
    /\ control_files \in SeqsUpTo(ControlFiles, MaxFiles)
    /\ additional_fields \in SeqsUpTo(AdditionalNames, MaxAdditional)
    /\ cf_index = 0
    /\ control_file_list = << >>
    /\ mpc = "loop"
    /\ response = NoResponse
    /\ ParserIdle /\ TransformIdle /\ SequenceIdle /\ LoggerIdle
    /\ source_file = NoFile
    /\ sheets_left = 0
    /\ rules_left = 0

\* lines 38-49, the control file read and parsed; db.get_additional_fields
\* answers the object's list, or [] when the database fails (db.py 170-172)
ControlFileDone ==
    /\ mpc = "loop"
    /\ cf_index < Len(control_files)
    /\ LET r == GetControlFileData(control_files[cf_index + 1])
       IN /\ r.kind = "return"
          /\ \E supplied \in {additional_fields, << >>} :
                control_file_list' =
                    Append(control_file_list,
                           [fields |-> MergeFields(r.fields, supplied),
                            parsed |-> r.fields,
                            supplied |-> supplied])
    /\ cf_index' = cf_index + 1
    /\ UNCHANGED <<control_files, additional_fields, mpc, response, outside_metadata>>

\* lines 41 and 60-61, the download or the parse raising
ControlFileRaises ==
    /\ mpc = "loop"
    /\ cf_index < Len(control_files)
    /\ LET r == GetControlFileData(control_files[cf_index + 1])
       IN /\ r.kind # "return"
          /\ response' = Rejected(r.status_code, r.detail)
    /\ mpc' = "responded"
    /\ UNCHANGED <<control_files, additional_fields, cf_index, control_file_list,
                   outside_metadata>>

\* lines 51-61
Respond ==
    /\ mpc = "loop"
    /\ cf_index = Len(control_files)
    /\ response' =
        IF Len(control_file_list) > 0
        THEN [status_code |-> 200,
              detail |-> << >>,
              files |-> [i \in 1..Len(control_file_list) |-> control_file_list[i].fields],
              count |-> Len(control_file_list)]
        ELSE Rejected(400, "No control files found")
    /\ mpc' = "responded"
    /\ UNCHANGED <<control_files, additional_fields, cf_index, control_file_list,
                   outside_metadata>>

MetadataNext == ControlFileDone \/ ControlFileRaises \/ Respond

SpecMetadata == MetadataInit /\ [][MetadataNext]_vars

\* ---------------------------------------------------------- S3LoggerHandler
\* what the S3 client's calls may do
HeadOutcomes == {"ok", "404", "403", "error"}
CreateOutcomes == {"ok", "ClientError"}
GetOutcomes == {"answer", "ClientError"}
PutOutcomes == {"ok", "ClientError"}

\* ensure_bucket_exists (lines 78-92): TRUE when it returns, FALSE when it
\* raises.  A ClientError whose code is a number other than 404 is swallowed;
\* with 404 the bucket is created, which may raise; a failure that is no
\* ClientError (no connection, no credentials) is not caught here.
EnsureBucketExists(head, create) ==
    CASE head = "ok" -> TRUE
      [] head = "404" -> create = "ok"
      [] head = "403" -> TRUE
      [] OTHER -> FALSE

\* upload_logs (lines 46-76) on the day now: the buffer, the bucket and the
\* key written last as the call leaves them
UploadLogs(buffer, objects, key, now, head, create, get, put) ==
    LET kept == [log_buffer |-> buffer, s3_objects |-> objects, last_key |-> key]
        cleared == [log_buffer |-> << >>, s3_objects |-> objects, last_key |-> key]
    IN IF buffer = << >> THEN kept
       ELSE IF ~EnsureBucketExists(head, create) THEN kept
       ELSE IF get = "ClientError" THEN cleared
       ELSE IF put = "ClientError" THEN cleared
       ELSE LET log_content ==
                    IF objects[now].exists THEN objects[now].body \o buffer ELSE buffer
            IN [log_buffer |-> << >>,
                s3_objects |-> [objects EXCEPT ![now] = [exists |-> TRUE, body |-> log_content]],
                last_key |-> now]

LoggerInit ==
    /\ LoggerIdle
    /\ ParserIdle /\ TransformIdle /\ SequenceIdle /\ MetadataIdle
    /\ source_file = NoFile
    /\ sheets_left = 0
    /\ rules_left = 0

\* the clock read at line 58 does not go back
LaterDays == {d \in Days : d >= utc_day}

\* emit (lines 25-36), the buffer still below buffer_size
EmitBuffers ==
    /\ emitted < MaxEmits
    /\ Len(log_buffer) + 1 < buffer_size
    /\ emitted' = emitted + 1
    /\ log_buffer' = Append(log_buffer, emitted + 1)
    /\ UNCHANGED <<s3_objects, last_key, utc_day, outside_logger>>

\* emit (lines 25-36), the buffer at buffer_size: upload_logs is called
EmitUploads ==
    /\ emitted < MaxEmits
    /\ Len(log_buffer) + 1 >= buffer_size
    /\ emitted' = emitted + 1
    /\ \E now \in LaterDays, head \in HeadOutcomes, create \in CreateOutcomes,
          get \in GetOutcomes, put \in PutOutcomes :
        LET r == UploadLogs(Append(log_buffer, emitted + 1), s3_objects, last_key,
                            now, head, create, get, put)
        IN /\ log_buffer' = r.log_buffer
           /\ s3_objects' = r.s3_objects
           /\ last_key' = r.last_key
           /\ utc_day' = now
    /\ UNCHANGED outside_logger

\* flush (lines 38-44)
Flush ==
    /\ \E now \in LaterDays, head \in HeadOutcomes, create \in CreateOutcomes,
          get \in GetOutcomes, put \in PutOutcomes :
        LET r == UploadLogs(log_buffer, s3_objects, last_key, now, head, create, get, put)
        IN /\ log_buffer' = r.log_buffer
           /\ s3_objects' = r.s3_objects
           /\ last_key' = r.last_key
           /\ utc_day' = now
    /\ UNCHANGED <<emitted, outside_logger>>

LoggerNext == EmitBuffers \/ EmitUploads \/ Flush

SpecLogger == LoggerInit /\ [][LoggerNext]_vars

(***************************************************************************)
(* The control-file parser's properties, stated without the parser's own   *)
(* scan: a line's class from its symbols, the balancing ')' from counts.   *)
(***************************************************************************)
HasAnchor(text) == \E i \in 0..(Len(text) - 3) : Slice(text, i, i + 3) = ANCHOR
FirstAnchor(text) == Min({i \in 0..(Len(text) - 3) : Slice(text, i, i + 3) = ANCHOR})
HasOpen(text) == \E i \in FirstAnchor(text)..(Len(text) - 1) : text[i + 1] = "("
FirstOpen(text) == Min({i \in FirstAnchor(text)..(Len(text) - 1) : text[i + 1] = "("})

\* the nesting depth just after index j, for a scan that starts at depth 1 after open
DepthAfter(text, open, j) ==
    1 + Cardinality({k \in (open + 1)..j : text[k + 1] = "("})
      - Cardinality({k \in (open + 1)..j : text[k + 1] = ")"})

BalancePoints(text) ==
    {j \in (FirstOpen(text) + 1)..(Len(text) - 1) :
        text[j + 1] = ")" /\ DepthAfter(text, FirstOpen(text), j) = 0}

WellFormed(text) == HasAnchor(text) /\ HasOpen(text) /\ BalancePoints(text) # {}

\* the lines between the first '(' after the anchor and the ')' that balances it
SectionLines(text) ==
    Split(Slice(text, FirstOpen(text) + 1, Min(BalancePoints(text))), "\n")

HasWord(line, w) == \E i \in 1..Len(line) : UpperSym(line[i]) = w

IsSkipLine(line) ==
    \/ HasWord(line, "CONSTANT") \/ HasWord(line, "EXPRESSION") \/ HasWord(line, "FILLER")
    \/ Strip(Upper(line)) = <<"END">>

IsFieldLine(line) ==
    LET t == Strip(Upper(line))
    IN /\ ~IsSkipLine(line)
       /\ \/ Len(t) >= 1 /\ IsFieldChar(t[1])
          \/ Len(t) >= 2 /\ t[1] = "," /\ IsFieldChar(t[2])

CapturedLines(text) ==
    LET ls == SectionLines(text) IN {i \in 1..Len(ls) : IsFieldLine(ls[i])}

\* C1: a text that parses and has at least one captured field line gives a list
\* that ends with the sentinel END and is one longer than the captured lines
C1_SentinelAndLength ==
    (ppc = "done" /\ WellFormed(content) /\ CapturedLines(content) # {})
        => /\ presult.kind = "return"
           /\ Len(presult.fields) = Cardinality(CapturedLines(content)) + 1
           /\ presult.fields[Len(presult.fields)] = <<"END">>

C1_Witness ==
    /\ ppc = "done" /\ WellFormed(content)
    /\ Cardinality(CapturedLines(content)) = 2
    /\ Len(presult.fields) = 3

\* C2: a text that parses and whose field section holds only FILLER, CONSTANT,
\* EXPRESSION or END lines gives the empty list, without a sentinel
C2_OnlySkipLinesGiveEmpty ==
    (ppc = "done" /\ WellFormed(content)
        /\ \A i \in 1..Len(SectionLines(content)) : IsSkipLine(SectionLines(content)[i]))
        => presult.kind = "return" /\ presult.fields = << >>

C2_Witness ==
    /\ ppc = "done" /\ WellFormed(content)
    /\ Len(SectionLines(content)) = 2
    /\ \A i \in 1..2 : IsSkipLine(SectionLines(content)[i])
    /\ presult.fields = << >>

\* C3: the field section ends at the ')' that balances the first '(' after the
\* anchor; a nested group does not end it, and the lines after the nested
\* group are still read
C3_BalancedClose ==
    (ppc = "done" /\ HasAnchor(content) /\ HasOpen(content))
        => /\ (presult.kind = "return") <=> (BalancePoints(content) # {})
           /\ presult.kind = "return"
                => presult.fields = WithSentinel(CollectFields(SectionLines(content)))

\* a nested group on the first line, a field on a later one
C3_Witness ==
    /\ ppc = "done" /\ WellFormed(content)
    /\ Len(SectionLines(content)) >= 2
    /\ HasWord(SectionLines(content)[1], "(") /\ HasWord(SectionLines(content)[1], ")")
    /\ IsFieldLine(SectionLines(content)[Len(SectionLines(content))])
    /\ presult.fields # << >>

\* C4: each structural defect raises its own 422 and nothing else
C4_SpecificErrors ==
    ppc = "done" =>
        /\ ~HasAnchor(content)
             => presult = Raised(422, "Could not find 'INTO TABLE' in the control file")
        /\ (HasAnchor(content) /\ ~HasOpen(content))
             => presult = Raised(422, "Could not find opening parenthesis after INTO TABLE")
        /\ (HasAnchor(content) /\ HasOpen(content) /\ BalancePoints(content) = {})
             => presult = Raised(422, "Could not find matching closing parenthesis")

\* parentheses before the anchor, none after it
C4_Witness ==
    /\ ppc = "done" /\ HasAnchor(content) /\ ~HasOpen(content)
    /\ HasWord(content, "(") /\ HasWord(content, ")")
    /\ presult.detail = "Could not find opening parenthesis after INTO TABLE"

\* a line that begins, once trimmed and upper-cased, with a name or with a
\* comma and a name
TokenShaped(line) ==
    LET t == Strip(Upper(line))
    IN \/ Len(t) >= 1 /\ IsFieldChar(t[1])
       \/ Len(t) >= 2 /\ t[1] = "," /\ IsFieldChar(t[2])

\* C22: among the lines that begin with a name, the ones that give no field
\* are exactly those that hold CONSTANT, EXPRESSION or FILLER anywhere, in
\* either case and also as part of a longer name, or that are END once
\* trimmed: a field section made of lines that begin with a name returns as
\* many fields as it has lines outside that class.
C22_SkipClass ==
    (ppc = "done" /\ WellFormed(content)
        /\ \A i \in 1..Len(SectionLines(content)) : TokenShaped(SectionLines(content)[i]))
        => LET ls == SectionLines(content)
               kept == {i \in 1..Len(ls) : ~IsSkipLine(ls[i])}
           IN /\ presult.kind = "return"
              /\ (presult.fields = << >>) <=> (kept = {})
              /\ kept # {} => Len(presult.fields) = Cardinality(kept) + 1

\* the word in lower case right after another name character, on the one line
C22_Witness ==
    /\ ppc = "done" /\ WellFormed(content)
    /\ SectionLines(content) = << <<"x", "filler">> >>
    /\ presult.fields = << >>

\* the name a line gives: the longest run of name characters at the start of
\* the trimmed, upper-cased line, a single comma before it left out
Token(line) ==
    LET t == Strip(Upper(line))
        s == IF t # << >> /\ t[1] = "," THEN 2 ELSE 1
        n == CHOOSE n \in 0..Len(t) :
                /\ s + n - 1 <= Len(t)
                /\ \A k \in s..(s + n - 1) : IsFieldChar(t[k])
                /\ (s + n <= Len(t) => ~IsFieldChar(t[s + n]))
    IN SubSeq(t, s, s + n - 1)

RECURSIVE ExpectedFields(_)
ExpectedFields(ls) ==
    IF ls = << >> THEN << >>
    ELSE (IF IsSkipLine(Head(ls)) \/ Token(Head(ls)) = << >> THEN << >>
          ELSE <<Token(Head(ls))>>) \o ExpectedFields(Tail(ls))

\* C23: the returned list is, line by line and in line order, the longest
\* name at the start of each line outside the skip class, upper-cased; a line
\* without such a name gives nothing and raises nothing; a name given twice
\* is returned twice.
C23_TokensInLineOrder ==
    (ppc = "done" /\ WellFormed(content))
        => LET e == ExpectedFields(SectionLines(content))
           IN /\ presult.kind = "return"
              /\ presult.fields = IF e = << >> THEN << >> ELSE e \o << <<"END">> >>

\* a name, then the same name again on a line that begins with a comma
C23_Witness ==
    /\ ppc = "done" /\ WellFormed(content)
    /\ Len(presult.fields) = 3
    /\ presult.fields[1] = presult.fields[2]
    /\ Len(presult.fields[1]) = 1
    /\ \E i \in 1..Len(SectionLines(content)) : Head(SectionLines(content)[i]) = ","

\* the text from the anchor to the ')' that balances the first '(' after it
AnchorToBalance(text) == Slice(text, FirstAnchor(text), Min(BalancePoints(text)) + 1)

\* C24: only the text from the anchor to the first balancing ')' counts: what
\* stands before the anchor (parentheses included) and what follows the
\* balancing ')' (field lines and further ')' included) changes nothing in
\* the result, and every '(' and ')' in between is counted.
C24_OnlyAnchorToBalanceCounts ==
    (ppc = "done" /\ WellFormed(content))
        => /\ presult = ParseControlFileContent(AnchorToBalance(content))
           /\ presult.fields = WithSentinel(ExpectedFields(SectionLines(content)))

\* a field in the section, and after the balancing ')' a line break, a name
\* and one more ')'
C24_Witness ==
    /\ ppc = "done" /\ WellFormed(content)
    /\ LET j == Min(BalancePoints(content))
       IN /\ Len(content) = j + 4
          /\ Slice(content, j + 1, j + 4) = <<"\n", "x", ")">>
    /\ presult.fields = << <<"X">>, <<"END">> >>


(***************************************************************************)
(* The transformation's properties.  The rows applied so far are a whole   *)
(* group whenever the loop of line 217 may end: EndSheet then writes       *)
(* output_df as it stands.  A null cell is an empty CSV field whichever    *)
(* null it is, so cells are compared up to that.                           *)
(***************************************************************************)
GroupProcessed == pc = "rules" /\ row # NoRule

SourceRows == Len(source_df.index)
Broadcast(value) == [i \in 1..SourceRows |-> value]
ColumnCells(c) == GetColumn(output_df, c).values
SameCell(a, b) == a = b \/ (IsNull(a) /\ IsNull(b))
SameCells(a, b) == Len(a) = Len(b) /\ \A i \in 1..Len(a) : SameCell(a[i], b[i])
Applied(c) == last[c].times > 0
IsConstantRule(rule) ==
    /\ UsesDefault(rule)
    /\ rule.default.shape = "dict"
    /\ LowerType(rule.default.type) = "constant"

\* C5: every table written to the archive has as many data rows as the
\* source table, groups of default-derived columns only included.
C5_RowCountIsSourceRowCount ==
    \A i \in 1..Len(zip_file) : zip_file[i].csv.lines = SourceRows

\* C6: the column of a rule with a constant default {type: 'constant',
\* value: v}, its source column absent or unmapped, holds v in every one of the
\* source table's rows, wherever the rule stands in the group.
C6_ConstantInEveryRow ==
    GroupProcessed =>
        \A c \in ControlColumns :
            (Applied(c) /\ IsConstantRule(last[c].rule)) =>
                /\ Contains(output_df.columns, c)
                /\ SameCells(ColumnCells(c), Broadcast(last[c].rule.default.value))

\* C7: a column named by two or more rules of a group holds, in every row of
\* the output table, the value the last of these rules produced.
C7_LastRuleWins ==
    GroupProcessed =>
        \A c \in ControlColumns :
            last[c].times = 2 =>
                LET rule == last[c].rule
                    produced ==
                        IF UsesDefault(rule)
                        THEN [i \in 1..Len(output_df.index) |-> last[c].value]
                        ELSE GetColumn(source_df, rule.source).values
                IN SameCells(ColumnCells(c), produced)

\* C8: source table {id:[1,2], name:['a','b']} under the mapping
\* {'G1': [id -> ID, STAMP <- constant 'X']} gives the table
\* {ID:[1,2], STAMP:['X','X']}, columns in that order, without 'name', and
\* when the group ends there the archive's one entry is that table under G1.
C8_FirstRule == [source |-> "id", control |-> "ID", default |-> NoDefault]
C8_SecondRule ==
    [source |-> NO_SOURCE, control |-> "STAMP",
     default |-> [shape |-> "dict", type |-> "constant", value |-> <<"X">>]]
C8_Scenario ==
    /\ source_df = SourceTable(2)
    /\ pc = "rules"
    /\ rules_left = MaxRules - 2
    /\ row = C8_SecondRule
    /\ last["ID"] = [times |-> 1, rule |-> C8_FirstRule, value |-> None]
    /\ last["STAMP"] = [times |-> 1, rule |-> C8_SecondRule, value |-> <<"X">>]
C8_Table ==
    [index |-> RangeIndex(2),
     columns |-> <<"ID", "STAMP">>,
     data |-> << << <<"1">>, <<"2">> >>, << <<"X">>, <<"X">> >> >>]
C8_EndToEnd ==
    /\ [](C8_Scenario => output_df = C8_Table)
    /\ [][(C8_Scenario /\ sheet_log' = << [name |-> <<"G", "1">>, status |-> "written"] >>) =>
            zip_file' = << [name |-> <<"G", "1", ".", "c", "s", "v">>,
                            csv |-> [header |-> <<"ID", "STAMP">>, lines |-> 2]] >>]_vars
C8_Witness == C8_Scenario /\ output_df = C8_Table /\ ~Contains(output_df.columns, "name")

\* C9: a rule whose source column is a column of the source table gives a
\* verbatim copy of it, its default ignored; any other rule with a default
\* gives the resolved default in each of the source table's rows; any other
\* rule without a default gives a null in each of the source table's rows.
C9_CopyElseDefaultElseEmpty ==
    GroupProcessed =>
        \A c \in ControlColumns :
            Applied(c) =>
                LET rule == last[c].rule
                IN /\ Contains(output_df.columns, c)
                   /\ IF ~UsesDefault(rule)
                      THEN ColumnCells(c) = GetColumn(source_df, rule.source).values
                      ELSE IF rule.default.shape # "absent"
                           THEN SameCells(ColumnCells(c), Broadcast(last[c].value))
                           ELSE SameCells(ColumnCells(c), Broadcast(None))

\* C10: whatever makes the scalar query of a rule fail, the request goes on
\* and the archive has the table of every group that had the required
\* columns, the group of the failing rule included.
Sheets(status) == {i \in 1..Len(sheet_log) : sheet_log[i].status = status}
C10_SqlFailureKeepsGroup ==
    pc = "returned" =>
        /\ Sheets("failed") = {}
        /\ Len(zip_file) = Len(sheet_log) - Cardinality(Sheets("skipped"))


\* C11: the column of a rule of type 'sql' whose source column is absent
\* holds, in every row of the output table, the first cell of the query's
\* result, or a null when the result is empty; no error is raised for an
\* empty result.
IsSqlRule(rule) ==
    /\ UsesDefault(rule)
    /\ rule.default.shape = "dict"
    /\ LowerType(rule.default.type) = "sql"
C11_SqlScalarInEveryRow ==
    GroupProcessed =>
        \A c \in ControlColumns :
            (Applied(c) /\ IsSqlRule(last[c].rule)) =>
                /\ Contains(output_df.columns, c)
                /\ \A i \in 1..Len(ColumnCells(c)) : SameCell(ColumnCells(c)[i], last[c].value)


(***************************************************************************)
(* generate_sequence's properties.                                         *)
(***************************************************************************)
\* C12: two calls of generate_sequence with the same pattern that read the
\* same clock value return the same string, and the pattern YYYYMMDD with
\* a clock reading on 2024-03-05 gives exactly 20240305.
OnDay(now, year, month, day) == now.year = year /\ now.month = month /\ now.day = day
IsPlainRule(rule) == UsesDefault(rule) /\ rule.default.shape = "scalar"
C13_LegacySequenceAndPlainScalar ==
    GroupProcessed =>
        \A c \in ControlColumns :
            (Applied(c) /\ IsPlainRule(last[c].rule)) =>
                /\ Contains(output_df.columns, c)
                /\ \A i \in 1..Len(ColumnCells(c)) :
                    IF Upper(last[c].rule.default.value) = SEQUENCE
                    THEN /\ Len(ColumnCells(c)[i]) = 14
                         /\ \E now \in Clocks : ColumnCells(c)[i] = LegacyTimestamp(now)
                    ELSE ColumnCells(c)[i] = last[c].rule.default.value


\* C14: a structured default whose type is none of sql, sequence, constant
\* never makes the sheet fail, and its column holds the declared value,
\* unchanged, in every row of the output table.
IsUnknownRule(rule) ==
    /\ UsesDefault(rule)
    /\ rule.default.shape = "dict"
    /\ LowerType(rule.default.type) \notin {"sql", "sequence", "constant"}
\* the declared value {'type': t, 'value': v} as a cell
DeclaredCell(default) ==
    <<"{", "type", ":">> \o Chars(default.type) \o <<",", "value", ":">> \o default.value \o <<"}">>
C14_UnknownTypePassesThrough ==
    GroupProcessed =>
        \A c \in ControlColumns :
            (Applied(c) /\ IsUnknownRule(last[c].rule)) =>
                /\ Contains(output_df.columns, c)
                /\ \A i \in 1..Len(ColumnCells(c)) :
                    ColumnCells(c)[i] = DeclaredCell(last[c].rule.default)


\* C15: a sheet that fails while it is processed has no entry in the
\* archive, every sheet that was written has its entry, the failure leaves
\* the archive as it was and goes on with the next sheet, and the request
\* does not end with an error.
IsWritten(entry) == entry.status = "written"
WrittenSheets == SelectSeq(sheet_log, IsWritten)
EntryNames == [i \in 1..Len(zip_file) |-> zip_file[i].name]
SheetFailed ==
    /\ Len(sheet_log') = Len(sheet_log) + 1
    /\ sheet_log'[Len(sheet_log')].status = "failed"
C15_FailureIsolatedToSheet ==
    /\ [](EntryNames = [i \in 1..Len(WrittenSheets) |-> CsvFilename(WrittenSheets[i].name)])
    /\ [](pc = "raised" => sheet_log = << >>)
    /\ [][SheetFailed => (pc' = "sheets" /\ zip_file' = zip_file /\ raised' = "")]_vars
C15_Witness ==
    /\ pc = "returned"
    /\ Len(sheet_log) = 2
    /\ sheet_log[1].status = "failed"
    /\ sheet_log[2].status = "written"
    /\ EntryNames = << CsvFilename(sheet_log[2].name) >>


\* C16: every sheet that was skipped or that failed is reported in what the
\* transform returns to its caller.
Reports(result, name) == \E j \in 1..Len(result) : result[j].name = CsvFilename(name)
C16_SkippedSheetsReported ==
    pc = "returned" =>
        \A i \in 1..Len(sheet_log) :
            sheet_log[i].status \in {"skipped", "failed"} =>
                Reports(ReturnValue, sheet_log[i].name)


\* C17: a source file whose name ends neither in .csv nor in .txt, a source
\* pandas cannot read and a mapping that is no JSON each end the request
\* with an error: no sheet is processed, no archive is made or returned,
\* and the request stays failed.
C17_BadNames == { <<"s", ".", "x", "l", "s">>, <<"c", "s", "v">> }
NothingProcessed ==
    /\ zip_file = << >>
    /\ sheet_log = << >>
    /\ output_df = EmptyFrame
    /\ row = NoRule
    /\ rules_left = MaxRules
    /\ sql_calls = 0
C18_OneDistinctEntryPerSheet ==
    /\ Len(zip_file) = Len(WrittenSheets)
    /\ \A i \in 1..Len(zip_file) :
        zip_file[i].name = Replace(WrittenSheets[i].name, <<" ">>, <<"_">>) \o <<".", "c", "s", "v">>
    /\ \A i, j \in 1..Len(zip_file) : i # j => zip_file[i].name # zip_file[j].name


(***************************************************************************)
(* get_metadata's properties.                                              *)
(***************************************************************************)
\* C19: the merged field list of a control file is its parsed fields in
\* their order, followed by the supplied additional fields that the parsed
\* list lacks, each once, in the order of their first occurrence.
Range(seq) == {seq[i] : i \in 1..Len(seq)}
AppendedFields(entry) == SubSeq(entry.fields, Len(entry.parsed) + 1, Len(entry.fields))
C19_MergeDeduplicatesInOrder ==
    \A k \in 1..Len(control_file_list) :
        LET entry == control_file_list[k]
            tail == AppendedFields(entry)
        IN /\ Len(entry.fields) >= Len(entry.parsed)
           /\ SubSeq(entry.fields, 1, Len(entry.parsed)) = entry.parsed
           /\ Range(tail) = Range(entry.supplied) \ Range(entry.parsed)
           /\ \A p, q \in 1..Len(tail) :
                p < q => /\ tail[p] # tail[q]
                         /\ Position(entry.supplied, tail[p]) < Position(entry.supplied, tail[q])
           /\ (mpc = "responded" /\ response.status_code = 200) => response.files[k] = entry.fields
\* a parsed list with a repeated name, a supplied name that the parsed list
\* has, one that is supplied twice, and one that is appended
C19_Witness ==
    \E k \in 1..Len(control_file_list) :
        LET entry == control_file_list[k]
        IN /\ Range(entry.supplied) \cap Range(entry.parsed) # {}
           /\ Len(entry.supplied) > Cardinality(Range(entry.supplied))
           /\ Len(AppendedFields(entry)) = 1
           /\ Len(entry.parsed) > Cardinality(Range(entry.parsed))

\* C20: when the parse of a control file raises a grammar error, get_metadata
\* answers with a rejection that carries the error's reason, returns no
\* field list at all, and does nothing more for the request.
GrammarReason(text) ==
    IF ~HasAnchor(text) THEN "Could not find 'INTO TABLE' in the control file"
    ELSE IF ~HasOpen(text) THEN "Could not find opening parenthesis after INTO TABLE"
    ELSE "Could not find matching closing parenthesis"
ParseRaisedAt(i) ==
    /\ control_files[i].status = 200
    /\ ~WellFormed(control_files[i].text)
    /\ \A j \in 1..(i - 1) : control_files[j].status = 200 /\ WellFormed(control_files[j].text)
C20_GrammarErrorRejectsRequest ==
    /\ [](mpc = "responded" =>
            \A i \in 1..Len(control_files) :
                ParseRaisedAt(i) =>
                    /\ response.status_code = 400
                    /\ response.detail =
                         <<"Error ", "422", ": ", GrammarReason(control_files[i].text)>>
                    /\ response.files = << >>
                    /\ response.count = 0
                    /\ cf_index = i - 1)
    /\ [][mpc = "responded" => UNCHANGED mvars]_vars
C20_Witness ==
    /\ mpc = "responded"
    /\ Len(control_files) = 2
    /\ ParseRaisedAt(2)
    /\ Len(control_file_list) = 1
    /\ Len(control_file_list[1].fields) > 0
    /\ response.status_code = 400


\* C21: the table of a sheet is built from the source table and the sheet's
\* own rules only: every sheet starts from an empty table whatever came
\* before it, no step of any sheet changes the source table, the entry a
\* sheet writes is its own table, and the entries written before stay in the
\* archive as they were.
SheetBegins == pc = "sheets" /\ pc' = "rules"
SheetWritten ==
    /\ Len(sheet_log') = Len(sheet_log) + 1
    /\ sheet_log'[Len(sheet_log')].status = "written"
C21_SheetsIndependent ==
    /\ [][SheetBegins => (output_df' = EmptyFrame /\ last' = NoLast /\ row' = NoRule)]_vars
    /\ [][pc # "begin" => source_df' = source_df]_vars
    /\ [][/\ Len(zip_file') >= Len(zip_file)
          /\ SubSeq(zip_file', 1, Len(zip_file)) = zip_file]_vars
    /\ [][SheetWritten =>
            /\ Len(zip_file') = Len(zip_file) + 1
            /\ zip_file'[Len(zip_file')].csv = ToCsv(output_df)]_vars
\* two sheets written under one file name, their tables different
C21_Witness ==
    /\ pc = "returned"
    /\ Len(zip_file) = 2
    /\ zip_file[1].name = zip_file[2].name
    /\ zip_file[1].csv # zip_file[2].csv


(***************************************************************************)
(* The sequence generator against a scanner that reads the pattern once.   *)
(***************************************************************************)
\* the clock component a token stands for, << >> for no token
TokenValue(tok, now) ==
    CASE tok = <<"Y", "Y", "Y", "Y">> -> Pad4(now.year)
      [] tok = <<"M", "M">> -> Pad2(now.month)
      [] tok = <<"D", "D">> -> Pad2(now.day)
      [] tok = <<"H", "H">> -> Pad2(now.hour)
      [] tok = <<"M", "I">> -> Pad2(now.minute)
      [] tok = <<"S", "S">> -> Pad2(now.second)
      [] OTHER -> << >>

\* one pass from the left: a token at the head gives its value and is passed
\* over, any other character is copied
RECURSIVE SinglePass(_, _)
SinglePass(pattern, now) ==
    IF pattern = << >> THEN << >>
    ELSE IF Len(pattern) >= 4 /\ TokenValue(SubSeq(pattern, 1, 4), now) # << >>
         THEN TokenValue(SubSeq(pattern, 1, 4), now)
                  \o SinglePass(SubSeq(pattern, 5, Len(pattern)), now)
    ELSE IF Len(pattern) >= 2 /\ TokenValue(SubSeq(pattern, 1, 2), now) # << >>
         THEN TokenValue(SubSeq(pattern, 1, 2), now)
                  \o SinglePass(SubSeq(pattern, 3, Len(pattern)), now)
    ELSE <<Head(pattern)>> \o SinglePass(Tail(pattern), now)

\* C25: the result of generate_sequence is the pattern read once from the
\* left, each of YYYY, MM, DD, HH, MI, SS giving its zero-padded clock
\* component and every other character itself; the six replacements made one
\* after the other never act on a value put in by an earlier one.
C25_NoDoubleSubstitution ==
    \A i \in 1..Len(sequences) :
        sequences[i].result = SinglePass(seq_pattern, sequences[i].now)

\* MMMI: the month token ends where the minute token would begin one earlier
C25_Witness ==
    /\ seq_pattern = <<"M", "M", "M", "I">>
    /\ Len(sequences) >= 1
    /\ sequences[1].now.month = 3 /\ sequences[1].now.minute = 20
    /\ sequences[1].result = <<"0", "3", "2", "0">>


(***************************************************************************)
(* The transformation's properties: the written table, the skipped sheet,  *)
(* the queries.                                                            *)
(***************************************************************************)
RuleApplied == pc = "rules" /\ pc' = "rules" /\ rules_left' < rules_left

\* C26: the header of a written table names the control columns in the
\* order of their first assignment, a column assigned again keeping its
\* place and standing once, and the table has one data line per source row.
C26_HeaderInFirstAssignmentOrder ==
    /\ [][RuleApplied =>
            output_df'.columns =
                IF Contains(output_df.columns, row'.control) THEN output_df.columns
                ELSE Append(output_df.columns, row'.control)]_vars
    /\ [][SheetWritten => zip_file'[Len(zip_file')].csv.header = output_df.columns]_vars
    /\ [](\A i \in 1..Len(zip_file) :
            /\ \A j, k \in 1..Len(zip_file[i].csv.header) :
                zip_file[i].csv.header[j] = zip_file[i].csv.header[k] => j = k
            /\ zip_file[i].csv.lines = Len(source_df.index))


SheetTaken == pc = "sheets" /\ sheets_left' < sheets_left
SheetSkipped ==
    /\ Len(sheet_log') = Len(sheet_log) + 1
    /\ sheet_log'[Len(sheet_log')].status = "skipped"
    /\ zip_file' = zip_file
    /\ pc' = "sheets" /\ raised' = raised

\* C27: a sheet whose rules have neither of the two keys is skipped, the
\* request going on without an entry for it; a sheet whose rules have the
\* Control Column key is taken for processing, whether or not any of them
\* has the Source Column key.
C27_SkipOnlyWithoutKeys ==
    /\ [][(SheetTaken /\ mapping_columns' = {}) => SheetSkipped]_vars
    /\ [][(SheetTaken /\ "Control Column" \in mapping_columns')
              => (pc' = "rules" /\ ~SheetSkipped)]_vars


\* C28: db.execute_sql_query is called by the rules of type sql whose source
\* column is unset or not in the source table, once per such rule as the
\* rule is applied, and by nothing else: a rule whose source column is in the
\* source table calls no query whatever its default, and so the calls never
\* outnumber the rules applied.
C28_QueriesOnlyForSqlDefaults ==
    /\ [][sql_calls' # sql_calls =>
            /\ sql_calls' = sql_calls + 1
            /\ pc = "rules" /\ rules_left' = rules_left - 1
            /\ pc' = "rules" => IsSqlRule(row')]_vars
    /\ [][RuleApplied =>
            (sql_calls' = IF IsSqlRule(row') THEN sql_calls + 1 ELSE sql_calls)]_vars
    /\ [][(RuleApplied /\ Contains(source_df.columns, row'.source))
              => sql_calls' = sql_calls]_vars
    /\ [](pc \in {"begin", "raised"} => sql_calls = 0)

\* one query for the sql rule without source, none for the sql rule that
\* names the source column id
C28_Witness ==
    /\ pc = "rules"
    /\ sql_calls = 1
    /\ row.source = "id" /\ row.control = "STAMP"
    /\ row.default.shape = "dict" /\ LowerType(row.default.type) = "sql"
    /\ last["ID"].times = 1 /\ IsSqlRule(last["ID"].rule)
    /\ last["STAMP"].times = 1


(***************************************************************************)
(* The parser's outcomes.                                                  *)
(***************************************************************************)
ParseErrors ==
    { Raised(422, "Could not find 'INTO TABLE' in the control file"),
      Raised(422, "Could not find opening parenthesis after INTO TABLE"),
      Raised(422, "Could not find matching closing parenthesis") }

\* C29: the parse of any text ends, in one step, either with one of the
\* three structural errors or with a list of fields; every field of a
\* returned list is a non-empty run of name characters, and the list is
\* never the sentinel END alone.
C29_TotalAndWellFormedFields ==
    /\ ppc = "ready" =>
        ExtractFieldsFromContent(content).kind \in {"return", "HTTPException"}
    /\ ppc = "done" =>
        /\ presult.kind = "return" \/ presult \in ParseErrors
        /\ presult.kind = "return" =>
            /\ \A i \in 1..Len(presult.fields) :
                /\ presult.fields[i] # << >>
                /\ \A k \in 1..Len(presult.fields[i]) : IsFieldChar(presult.fields[i][k])
            /\ presult.fields # << <<"END">> >>

\* a field line that names END itself: the list is END and the sentinel
C29_Witness ==
    /\ ppc = "done" /\ WellFormed(content)
    /\ SectionLines(content) = << <<",", "END">> >>
    /\ presult.fields = << <<"END">>, <<"END">> >>


(***************************************************************************)
(* The S3 log handler's properties.                                        *)
(***************************************************************************)
Emitted == emitted' = emitted + 1

\* C30: every entry emitted is in log_buffer or in the body of the object
\* put_object wrote last, whatever the S3 calls did, and when emit returns
\* log_buffer holds fewer than buffer_size entries.
C30_NoEntryLostBufferBounded ==
    /\ [](\A e \in 1..emitted :
            \/ \E i \in 1..Len(log_buffer) : log_buffer[i] = e
            \/ /\ last_key # 0
               /\ \E i \in 1..Len(s3_objects[last_key].body) : s3_objects[last_key].body[i] = e)
    /\ [][Emitted => Len(log_buffer') < buffer_size]_vars

====
